---- MODULE Spec2Model ----
(***************************************************************************)
(* AuraLog (src/app.py): a Streamlit page that appends mood entries to a   *)
(* CSV store and derives, on every script run, the current logging streak  *)
(* (calculate_streak) and the per-day activity series handed to the        *)
(* calendar heatmap (create_activity_heatmap).                             *)
(*                                                                         *)
(* Time is counted in ticks; TicksPerDay ticks make one calendar day, so   *)
(* a timestamp t lies on the calendar date t \div TicksPerDay.  Calendar   *)
(* dates are day numbers.                                                  *)
(*                                                                         *)
(* Two specifications share the module:                                    *)
(*   SpecDates  the date-level core of both aggregations (app.py 63-83,    *)
(*              137-144) applied to every bounded sequence of dates;       *)
(*   Spec       the page itself: the store file, the clock, the script     *)
(*              run (streak metric, heatmap, messages) and Submit.         *)
(***************************************************************************)
EXTENDS Integers, Sequences, FiniteSets, TLC

VARIABLES
    dates,           \* SpecDates: df['date'], one calendar date per parsed record
    today,           \* SpecDates: date.today()
    calculated,      \* SpecDates: the two results below are those of dates, today
    current_streak,  \* SpecDates: what the streak walk returned
    daily_counts,    \* SpecDates: the per-day count series
    file,            \* Spec: data/mood_data.csv: Absent, or its lines in order
    now,             \* Spec: the clock, in ticks, as last read by a script run
    streak,          \* Spec: the last run's calculate_streak result
    heatmap,         \* Spec: the last run's create_activity_heatmap result
    notes,           \* Spec: messages the last run's top-level script showed
    submitted,       \* Spec (history): record lines written by Submit, in order
    startedFresh     \* Spec (history): the store was absent or empty at start

dateVars == <<dates, today, calculated, current_streak, daily_counts>>
appVars == <<file, now, streak, heatmap, notes, submitted, startedFresh>>
vars == <<dates, today, calculated, current_streak, daily_counts,
          file, now, streak, heatmap, notes, submitted, startedFresh>>

----------------------------------------------------------------------------
(* Bounds *)

MaxDay == 4          \* SpecDates: calendar dates are 0..MaxDay
MaxLen == 3          \* SpecDates: at most MaxLen parsed records
TicksPerDay == 2     \* Spec: clock readings per calendar day
MaxClockDay == 2     \* Spec: the clock runs over days 0..MaxClockDay
MaxLegacyRows == 1   \* Spec: data rows of a store that predates the page

Days == 0..MaxDay
ClockDays == 0..MaxClockDay
MaxTick == (MaxClockDay + 1) * TicksPerDay - 1
Ticks == 0..MaxTick
\* Submit is offered while the store has fewer lines than this.
MaxLines == MaxLegacyRows + 2

SeqUpTo(S, n) == UNION {[1..k -> S] : k \in 0..n}
Range(s) == {s[i] : i \in DOMAIN s}

----------------------------------------------------------------------------
(* Date-level core of calculate_streak (app.py 63-83) *)

\* Mutant of Unique: duplicates are kept.
UniqueKeepAll(s) == s

\* Series.unique(): the distinct values in order of first appearance.
Unique(s) ==
    LET F[i \in 0..Len(s)] ==
            IF i = 0 THEN <<>>
            ELSE IF \E j \in 1..Len(F[i-1]) : F[i-1][j] = s[i]
                 THEN F[i-1]
                 ELSE Append(F[i-1], s[i])
    IN F[Len(s)]

RECURSIVE InsertDesc(_, _)
InsertDesc(u, x) ==
    IF u = <<>> THEN <<x>>
    ELSE IF x >= Head(u) THEN <<x>> \o u
    ELSE <<Head(u)>> \o InsertDesc(Tail(u), x)

\* Mutant of SortedDesc: the dates stay in the order they were read.
Unsorted(s) == s

\* sorted(..., reverse=True)
SortedDesc(s) ==
    LET F[i \in 0..Len(s)] ==
            IF i = 0 THEN <<>> ELSE InsertDesc(F[i-1], s[i])
    IN F[Len(s)]

\* Mutant of StreakWalk: a gap does not end the scan, the cursor moves on.
RECURSIVE WalkPastGaps(_, _, _, _)
WalkPastGaps(u, i, last_streak_date, s) ==
    IF i > Len(u) THEN s
    ELSE IF last_streak_date - u[i] = 1
         THEN WalkPastGaps(u, i + 1, u[i], s + 1)
         ELSE WalkPastGaps(u, i + 1, u[i], s)

\* for i in range(1, len(unique_dates)): ... else: break   (u is 1-based here)
RECURSIVE StreakWalk(_, _, _, _)
StreakWalk(u, i, last_streak_date, s) ==
    IF i > Len(u) THEN s
    ELSE IF last_streak_date - u[i] = 1
         THEN StreakWalk(u, i + 1, u[i], s + 1)
         ELSE s

\* Mutant of CurrentStreak: the walk starts whatever the most recent date is.
CurrentStreakNoAnchor(unique_dates, t) ==
    StreakWalk(unique_dates, 2, unique_dates[1], 1)

\* Lines 69-83, for a non-empty descending unique_dates and today = t.
CurrentStreak(unique_dates, t) ==
    IF unique_dates[1] = t \/ unique_dates[1] = t - 1
    THEN StreakWalk(unique_dates, 2, unique_dates[1], 1)
    ELSE 0

\* Lines 60-83 on df['date'] = ds: the streak calculate_streak returns.
StreakOfDates(ds, t) ==
    IF ds = <<>> THEN 0
    ELSE LET unique_dates == SortedDesc(Unique(ds))
         IN IF unique_dates = <<>> THEN 0 ELSE CurrentStreak(unique_dates, t)

----------------------------------------------------------------------------
(* Date-level core of create_activity_heatmap (app.py 137-138) *)

\* Mutant of ValueCounts: the dates are deduplicated before they are counted.
ValueCountsDeduped(ds) == [d \in Range(ds) |-> 1]

\* Series.value_counts(): occurrences per distinct value.
ValueCounts(ds) ==
    [d \in Range(ds) |-> Cardinality({i \in DOMAIN ds : ds[i] = d})]

RECURSIVE AscendingSeq(_)
AscendingSeq(S) ==
    IF S = {} THEN <<>>
    ELSE LET m == CHOOSE x \in S : \A y \in S : x <= y
         IN <<m>> \o AscendingSeq(S \ {m})

\* Series.sort_index(): the entries by ascending key.
SortIndex(vc) ==
    LET keys == AscendingSeq(DOMAIN vc)
    IN [i \in 1..Len(keys) |-> [date |-> keys[i], count |-> vc[keys[i]]]]

\* daily_counts = df[...].dt.date.value_counts().sort_index()
DailyCounts(ds) == SortIndex(ValueCounts(ds))

----------------------------------------------------------------------------
(* The store file and pandas' view of it *)

\* A CSV field: the text of a timestamp (ts >= 0), other text, or nothing.
Stamp(t) == [ts |-> t, text |-> ""]
Text(x) == [ts |-> -1, text |-> x]
Blank == [ts |-> -1, text |-> ""]

\* The columns DataFrame.to_csv writes for new_entry (app.py 188-192).
HeaderLine == <<Text("timestamp"), Text("mood"), Text("reason")>>

NoFile == [exists |-> FALSE, lines |-> <<>>]

\* not os.path.exists(path) or os.path.getsize(path) == 0
AbsentOrEmpty(f) == ~f.exists \/ f.lines = <<>>

\* pd.read_csv: blank lines are skipped, the first line left names the
\* columns, the others are the rows; with no line left it raises
\* EmptyDataError.  (Every non-blank line of the model has three fields, so
\* the parser's field-count errors do not arise.)
ReadCsv(lines) ==
    LET kept == SelectSeq(lines, LAMBDA l : l # <<>>)
    IN IF kept = <<>>
       THEN [error |-> "EmptyDataError", columns |-> <<>>, rows |-> <<>>]
       ELSE [error |-> "", columns |-> Head(kept), rows |-> Tail(kept)]

\* DataFrame.empty
DfEmpty(df) == df.columns = <<>> \/ df.rows = <<>>

\* name in df.columns
HasColumn(df, name) == \E i \in DOMAIN df.columns : df.columns[i] = Text(name)

\* df[name]: the values of the column called name
Column(df, name) ==
    LET c == CHOOSE i \in DOMAIN df.columns : df.columns[i] = name
    IN [r \in DOMAIN df.rows |-> df.rows[r][c]]

\* df.iloc[:, 0]
FirstColumn(df) == [r \in DOMAIN df.rows |-> df.rows[r][1]]

\* Whether a field's text is a timestamp; an empty field is read as NaN,
\* which to_datetime turns into NaT without complaint.
Parses(cell) == cell.ts >= 0
Missing(cell) == cell = Blank

\* pd.to_datetime(values, errors='raise') raises on text that is no timestamp.
ToDatetimeRaises(values) ==
    \E i \in DOMAIN values : ~Parses(values[i]) /\ ~Missing(values[i])

\* Mutant of ParsedTimestamps: one value that does not parse loses the batch.
ParsedAllOrNothing(values) ==
    IF \E i \in DOMAIN values : values[i].ts < 0 THEN <<>>
    ELSE [i \in DOMAIN values |-> values[i].ts]

\* pd.to_datetime(values, errors='coerce') followed by dropna: the
\* timestamps of the values that parse, in row order.
ParsedTimestamps(values) ==
    LET kept == SelectSeq(values, Parses)
    IN [i \in DOMAIN kept |-> kept[i].ts]

\* Timestamp.date(): the time of day is discarded.
DateOf(t) == t \div TicksPerDay

\* .dt.date
DtDate(stamps) == [i \in DOMAIN stamps |-> DateOf(stamps[i])]

\* pd.to_datetime(date): midnight of that date.
Midnight(d) == d * TicksPerDay

NoColumn == Blank

----------------------------------------------------------------------------
(* calculate_streak (app.py 9-83) *)

StreakResult(v, col, msgs) == [value |-> v, col |-> col, messages |-> msgs]

\* Lines 33-51: timestamp_col_name, and whether the function gave up.
StreakTimestampCol(df) ==
    IF HasColumn(df, "timestamp") THEN [name |-> Text("timestamp"), failed |-> FALSE]
    ELSE IF HasColumn(df, "Date and Time")
         THEN [name |-> Text("Date and Time"), failed |-> FALSE]
    ELSE IF Len(df.columns) > 0
         THEN IF ToDatetimeRaises(FirstColumn(df))
              THEN [name |-> NoColumn, failed |-> TRUE]
              ELSE [name |-> df.columns[1], failed |-> FALSE]
    ELSE [name |-> NoColumn, failed |-> TRUE]

\* calculate_streak on store f when date.today() is t.
CalculateStreak(f, t) ==
    IF AbsentOrEmpty(f) THEN StreakResult(0, NoColumn, {})
    ELSE LET df == ReadCsv(f.lines)
         IN IF df.error = "EmptyDataError" THEN StreakResult(0, NoColumn, {})
            ELSE IF DfEmpty(df) THEN StreakResult(0, NoColumn, {})
            ELSE LET sel == StreakTimestampCol(df)
                 IN IF sel.failed THEN StreakResult(0, NoColumn, {"warning"})
                    ELSE LET parsed == ParsedTimestamps(Column(df, sel.name))
                         IN IF parsed = <<>> THEN StreakResult(0, sel.name, {})
                            ELSE StreakResult(StreakOfDates(DtDate(parsed), t),
                                              sel.name, {})

----------------------------------------------------------------------------
(* create_activity_heatmap (app.py 87-161) *)

\* fig is the events series handed to calplot; shown is FALSE for None.
HeatmapResult(events, col, msgs) ==
    [shown |-> events # <<>>, events |-> events, col |-> col, messages |-> msgs]

\* Mutant of HeatmapTimestampCol: `Date and Time` is looked for first.
HeatmapColDateAndTimeFirst(df) ==
    IF HasColumn(df, "Date and Time")
    THEN [name |-> Text("Date and Time"), failed |-> FALSE]
    ELSE IF HasColumn(df, "timestamp")
         THEN [name |-> Text("timestamp"), failed |-> FALSE]
    ELSE IF Len(df.columns) > 0
         THEN IF ToDatetimeRaises(FirstColumn(df))
              THEN [name |-> NoColumn, failed |-> TRUE]
              ELSE [name |-> df.columns[1], failed |-> FALSE]
    ELSE [name |-> NoColumn, failed |-> TRUE]

\* Lines 107-125.
HeatmapTimestampCol(df) ==
    IF HasColumn(df, "timestamp") THEN [name |-> Text("timestamp"), failed |-> FALSE]
    ELSE IF HasColumn(df, "Date and Time")
         THEN [name |-> Text("Date and Time"), failed |-> FALSE]
    ELSE IF Len(df.columns) > 0
         THEN IF ToDatetimeRaises(FirstColumn(df))
              THEN [name |-> NoColumn, failed |-> TRUE]
              ELSE [name |-> df.columns[1], failed |-> FALSE]
    ELSE [name |-> NoColumn, failed |-> TRUE]

\* Lines 137-141: the per-day counts, indexed by each date's midnight.
Events(stamps) ==
    LET daily == DailyCounts(DtDate(stamps))
    IN [i \in DOMAIN daily |->
           [date |-> Midnight(daily[i].date), count |-> daily[i].count]]

\* Lines 88-105 catch every exception of the read alike: st.error, None.
CreateActivityHeatmap(f) ==
    IF AbsentOrEmpty(f) THEN HeatmapResult(<<>>, NoColumn, {})
    ELSE LET df == ReadCsv(f.lines)
         IN IF df.error # "" THEN HeatmapResult(<<>>, NoColumn, {"error"})
            ELSE IF DfEmpty(df) THEN HeatmapResult(<<>>, NoColumn, {})
            ELSE LET sel == HeatmapTimestampCol(df)
                 IN IF sel.failed THEN HeatmapResult(<<>>, NoColumn, {"warning"})
                    ELSE LET parsed == ParsedTimestamps(Column(df, sel.name))
                         IN IF parsed = <<>> THEN HeatmapResult(<<>>, sel.name, {})
                            ELSE HeatmapResult(Events(parsed), sel.name, {})

----------------------------------------------------------------------------
(* The page: one script run per interaction (app.py 164-208) *)

\* Lines 176-179: st.info in place of the heatmap when there is none.
HeatmapNotes(h) == IF h.shown THEN {} ELSE {"info"}

\* mood_options (two of them) and what the text input may hold.
Moods == {"Happy", "Neutral"}
Reasons == {"", "ok"}

\* Mutant of HeaderNeeded: an existing but empty file gets no header.
HeaderNeededWhenAbsent(f) == ~f.exists

\* header_needed (line 201).
HeaderNeeded(f) == ~f.exists \/ f.lines = <<>>

\* df_entry.to_csv(file_path, mode='a', header=header_needed, index=False)
AppendEntry(f, entry) ==
    [exists |-> TRUE,
     lines |-> f.lines \o (IF HeaderNeeded(f) THEN <<HeaderLine>> ELSE <<>>) \o <<entry>>]

\* Stores that predate the page: a header of three columns whose first two
\* names vary, and rows whose first field is any date's timestamp, text or
\* empty and whose second is a timestamp or text.
FirstNames == {"timestamp", "Date and Time", "when"}
SecondNames == {"timestamp", "Date and Time", "mood"}
LegacyHeaders ==
    {<<Text(p[1]), Text(p[2]), Text("reason")>> :
        p \in {q \in FirstNames \X SecondNames : q[1] # q[2]}}
LegacyCells == {Stamp(Midnight(d)) : d \in ClockDays} \cup {Text("Happy"), Blank}
LegacyRows == {<<a, b, Text("ok")>> : a \in LegacyCells, b \in {Stamp(0), Text("Happy")}}
InitialStores ==
    {NoFile, [exists |-> TRUE, lines |-> <<>>], [exists |-> TRUE, lines |-> << <<>> >>]}
        \cup {[exists |-> TRUE, lines |-> <<h>> \o rows] :
                 h \in LegacyHeaders, rows \in SeqUpTo(LegacyRows, MaxLegacyRows)}

Init ==
    /\ file \in InitialStores
    /\ now \in Ticks
    /\ streak = CalculateStreak(file, DateOf(now))
    /\ heatmap = CreateActivityHeatmap(file)
    /\ notes = HeatmapNotes(heatmap)
    /\ submitted = <<>>
    /\ startedFresh = AbsentOrEmpty(file)
    /\ dates = <<>>
    /\ today = 0
    /\ calculated = FALSE
    /\ current_streak = 0
    /\ daily_counts = <<>>

\* A script run with no button pressed, the clock reading t.
Rerun(t) ==
    /\ t >= now
    /\ now' = t
    /\ streak' = CalculateStreak(file, DateOf(t))
    /\ heatmap' = CreateActivityHeatmap(file)
    /\ notes' = HeatmapNotes(heatmap')
    /\ UNCHANGED <<file, submitted, startedFresh>>
    /\ UNCHANGED dateVars

\* A script run with Submit pressed (lines 186-208), the clock reading t.
\* After a successful append st.rerun() runs the script again, and that
\* run's output is what stays on the page (a later clock reading is a
\* further Rerun).
Submit(mood, reason, t) ==
    /\ t >= now
    /\ Len(file.lines) < MaxLines
    /\ now' = t
    /\ IF mood # "" /\ reason # ""
       THEN LET entry == <<Stamp(t), Text(mood), Text(reason)>>
            IN /\ file' = AppendEntry(file, entry)
               /\ submitted' = Append(submitted, entry)
               /\ streak' = CalculateStreak(file', DateOf(t))
               /\ heatmap' = CreateActivityHeatmap(file')
               /\ notes' = HeatmapNotes(heatmap')
       ELSE /\ streak' = CalculateStreak(file, DateOf(t))
            /\ heatmap' = CreateActivityHeatmap(file)
            /\ notes' = HeatmapNotes(heatmap') \cup {"warning: select a mood and give a reason"}
            /\ UNCHANGED <<file, submitted>>
    /\ UNCHANGED startedFresh
    /\ UNCHANGED dateVars

Next ==
    \/ \E t \in Ticks : Rerun(t)
    \/ \E mood \in Moods, reason \in Reasons, t \in Ticks : Submit(mood, reason, t)

Spec == Init /\ [][Next]_vars

----------------------------------------------------------------------------
(* SpecDates: the two computations on every bounded date sequence *)

InitDates ==
    /\ dates \in SeqUpTo(Days, MaxLen)
    /\ today \in Days
    /\ calculated = FALSE
    /\ current_streak = 0
    /\ daily_counts = <<>>
    /\ file = NoFile
    /\ now = 0
    /\ streak = StreakResult(0, NoColumn, {})
    /\ heatmap = HeatmapResult(<<>>, NoColumn, {})
    /\ notes = {}
    /\ submitted = <<>>
    /\ startedFresh = TRUE

\* One pass over the parsed records: both aggregations are computed.
Calculate ==
    /\ ~calculated
    /\ calculated' = TRUE
    /\ current_streak' = StreakOfDates(dates, today)
    /\ daily_counts' = DailyCounts(dates)
    /\ UNCHANGED <<dates, today>>
    /\ UNCHANGED appVars

\* One more parsed record, on date d; the results are stale until recomputed.
LogRecord(d) ==
    /\ Len(dates) < MaxLen
    /\ dates' = Append(dates, d)
    /\ calculated' = FALSE
    /\ current_streak' = 0
    /\ daily_counts' = <<>>
    /\ UNCHANGED today
    /\ UNCHANGED appVars

NextDates ==
    \/ Calculate
    \/ \E d \in Days : LogRecord(d)

SpecDates == InitDates /\ [][NextDates]_vars

----------------------------------------------------------------------------
(* Properties of the date-level core (checked under SpecDates) *)

MaxOf(S) == CHOOSE x \in S : \A y \in S : y <= x
Recorded == Range(dates)

\* The number of consecutive days e, e-1, ... that all have a record in S.
RunEndingAt(S, e) ==
    CHOOSE k \in 0..(e + 1) : (\A j \in 0..(k - 1) : (e - j) \in S) /\ (e - k) \notin S

\* The streak as the glossary defines it: the run ending today, or at
\* yesterday when today has no record.
RunEndingTodayOrYesterday(S, t) ==
    IF t \in S THEN RunEndingAt(S, t) ELSE RunEndingAt(S, t - 1)

\* C1: for every D and every today, the streak returned equals the length of
\* the unbroken run of recorded days that ends today, or at yesterday when
\* today has no record (0 when neither has one).
C1_StreakIsRunEndingTodayOrYesterday ==
    calculated => current_streak = RunEndingTodayOrYesterday(Recorded, today)

\* C1 holds of every D that has no record dated after today.
C1_HoldsWithoutFutureDates ==
    (calculated /\ \A d \in Recorded : d <= today)
        => current_streak = RunEndingTodayOrYesterday(Recorded, today)

\* The first day of the run the streak counts (today when there is no run).
RunStart == IF current_streak > 0 THEN MaxOf(Recorded) - current_streak + 1 ELSE today

\* C2: inserting any set of dates that are older than the current run and
\* separated from it by at least one missing day leaves the streak at s,
\* also when the inserted dates are consecutive with each other.
C2_OlderDatesBeyondGapKeepStreak ==
    calculated =>
        \A X \in (SUBSET Days) \ {{}} :
            (\A x \in X : x < RunStart - 1) =>
                /\ StreakOfDates(dates \o AscendingSeq(X), today) = current_streak
                /\ StreakOfDates(AscendingSeq(X) \o dates, today) = current_streak

\* C2 witness: the streak is 1 although two older recorded days, beyond a
\* gap, are consecutive with each other.
C2_Witness ==
    /\ calculated
    /\ current_streak = 1
    /\ \E x \in Recorded : x + 1 \in Recorded /\ x + 1 < MaxOf(Recorded) - 1

\* C3: the streak is 0 whenever D is empty or its most recent date is
\* earlier than today minus one day.
C3_ZeroWhenEmptyOrStale ==
    (calculated /\ (dates = <<>> \/ MaxOf(Recorded) < today - 1)) => current_streak = 0

\* C3 witness: records exist, the latest is older than yesterday, streak 0.
C3_Witness ==
    /\ calculated
    /\ dates # <<>>
    /\ MaxOf(Recorded) < today - 1
    /\ current_streak = 0

RECURSIVE SumCounts(_)
SumCounts(series) ==
    IF series = <<>> THEN 0 ELSE Head(series).count + SumCounts(Tail(series))

\* The count a series holds for date d (0 when it has no entry for d).
CountOn(series, d) ==
    IF \E i \in DOMAIN series : series[i].date = d
    THEN (CHOOSE e \in Range(series) : e.date = d).count
    ELSE 0

\* C4: the per-day series counts every record exactly once: its values sum
\* to len(D), each value is >= 1, there is no entry for a day without
\* records, and each recorded day has one entry.
C4_CountsSumToLen ==
    calculated =>
        /\ SumCounts(daily_counts) = Len(dates)
        /\ \A i \in DOMAIN daily_counts :
              /\ daily_counts[i].count >= 1
              /\ daily_counts[i].date \in Recorded
        /\ \A d \in Recorded :
              Cardinality({i \in DOMAIN daily_counts : daily_counts[i].date = d}) = 1

\* C4 witness: three records on two days were counted.
C4_Witness ==
    /\ calculated
    /\ Len(dates) = 3
    /\ Len(daily_counts) = 2

\* C5: one more record on a date that already has a record leaves the
\* streak unchanged, raises that date's count by exactly 1 and leaves every
\* other date's count unchanged.
C5_DuplicateDayDualSemantics ==
    calculated =>
        \A d \in Recorded :
            LET more == Append(dates, d)
            IN /\ StreakOfDates(more, today) = current_streak
               /\ CountOn(DailyCounts(more), d) = CountOn(daily_counts, d) + 1
               /\ \A e \in Days \ {d} : CountOn(DailyCounts(more), e) = CountOn(daily_counts, e)

\* C5 witness: a day already holds two records and the streak spans two days.
C5_Witness ==
    /\ calculated
    /\ current_streak = 2
    /\ \E d \in Recorded : CountOn(daily_counts, d) = 2

Reorderings(s) == {[i \in DOMAIN s |-> s[f[i]]] : f \in Permutations(DOMAIN s)}

\* C10: for every permutation of the records the streak and the per-day
\* series are the same, and the series lists its dates in ascending order.
C10_OrderIndependent ==
    calculated =>
        /\ \A p \in Reorderings(dates) :
              /\ StreakOfDates(p, today) = current_streak
              /\ DailyCounts(p) = daily_counts
        /\ \A i, j \in DOMAIN daily_counts :
              i < j => daily_counts[i].date < daily_counts[j].date

\* C10 witness: the records were read neither ascending nor descending and
\* the streak spans at least two days.
C10_Witness ==
    /\ calculated
    /\ current_streak >= 2
    /\ \E i, j \in DOMAIN dates : i < j /\ dates[i] < dates[j]
    /\ \E i, j \in DOMAIN dates : i < j /\ dates[i] > dates[j]

----------------------------------------------------------------------------
(* Properties of the page (checked under Spec) *)

Df == ReadCsv(file.lines)

\* The store was read into a frame that has columns and rows.
Loaded == ~AbsentOrEmpty(file) /\ Df.error = "" /\ ~DfEmpty(Df)

\* A value that is text but no timestamp.
Unparseable(cell) == cell.ts < 0 /\ cell.text # ""

\* The three store shapes: a `timestamp` column, else a `Date and Time`
\* column, else whatever the first column is called.
Shape ==
    IF \E i \in DOMAIN Df.columns : Df.columns[i].text = "timestamp" THEN "timestamp"
    ELSE IF \E i \in DOMAIN Df.columns : Df.columns[i].text = "Date and Time"
         THEN "Date and Time"
    ELSE "first column"

\* The values of the column the shape designates, by row.
ShapeValues ==
    LET c == IF Shape = "first column" THEN 1
             ELSE CHOOSE i \in DOMAIN Df.columns : Df.columns[i].text = Shape
    IN [r \in DOMAIN Df.rows |-> Df.rows[r][c]]

\* The timestamps of the designated column's parseable values.
ShapeStamps ==
    LET good == SelectSeq(ShapeValues, LAMBDA c : c.ts >= 0)
    IN [i \in DOMAIN good |-> good[i].ts]

\* Both results are those of exactly the parseable records.
FromParseableRecords ==
    /\ streak.value = StreakOfDates(DtDate(ShapeStamps), DateOf(now))
    /\ heatmap.events = Events(ShapeStamps)
    /\ heatmap.shown = (ShapeStamps # <<>>)

\* Both computations gave their default and warned.
DefaultWithWarning ==
    /\ streak.value = 0
    /\ ~heatmap.shown
    /\ "warning" \in streak.messages
    /\ "warning" \in heatmap.messages

SomeParseable == \E r \in DOMAIN ShapeValues : ShapeValues[r].ts >= 0
SomeUnparseable == \E r \in DOMAIN ShapeValues : Unparseable(ShapeValues[r])
SomeNotParsed == \E r \in DOMAIN ShapeValues : ShapeValues[r].ts < 0

\* C6 as stated: in each of the three shapes, a record set with at least
\* one parseable and one unparseable timestamp value yields the streak and
\* the daily counts of exactly the parseable records.
C6_UnparseableDroppedInEveryShape ==
    (Loaded /\ SomeParseable /\ SomeUnparseable) => FromParseableRecords

\* C6 amended: with a `timestamp` or `Date and Time` column the values that
\* do not parse are dropped and the results are those of the parseable
\* records; with the first-column fallback one unparseable value makes both
\* computations return their default with a warning (empty fields are
\* still just dropped).
C6_UnparseableDroppedInNamedShapes ==
    Loaded =>
        /\ (Shape # "first column" /\ SomeParseable /\ SomeNotParsed)
              => FromParseableRecords
        /\ (Shape = "first column" /\ SomeUnparseable) => DefaultWithWarning
        /\ (Shape = "first column" /\ ~SomeUnparseable) => FromParseableRecords

\* C6 witness: a `Date and Time` store with one unparseable and one valid
\* row shows a streak and a heatmap.
C6_Witness ==
    /\ Loaded
    /\ Shape = "Date and Time"
    /\ SomeParseable /\ SomeUnparseable
    /\ streak.value = 1
    /\ heatmap.shown

\* C7: both functions choose `timestamp` if present, else `Date and Time`,
\* else the first column provided it parses; if it does not, both return
\* their default with a warning.  A lower-priority column is never used
\* when a higher-priority one exists, even if that one's values do not parse.
C7_ColumnPriority ==
    Loaded =>
        /\ streak.col = heatmap.col
        /\ Shape = "timestamp" => streak.col = Text("timestamp")
        /\ Shape = "Date and Time" => heatmap.col = Text("Date and Time")
        /\ (Shape = "first column" /\ ~SomeUnparseable) => streak.col = Df.columns[1]
        /\ (Shape = "first column" /\ SomeUnparseable)
              => (DefaultWithWarning /\ streak.col = NoColumn)
        /\ (Shape # "first column" /\ ~SomeParseable)
              => (streak.value = 0 /\ ~heatmap.shown)
        /\ (Shape # "first column" /\ SomeParseable) => heatmap.shown

\* C7 witness: `Date and Time` comes first and holds valid timestamps, yet
\* the `timestamp` column, whose values do not parse, was used.
C7_Witness ==
    /\ Loaded
    /\ Df.columns[1] = Text("Date and Time")
    /\ Shape = "timestamp"
    /\ \A r \in DOMAIN Df.rows : Df.rows[r][1].ts >= 0
    /\ ~SomeParseable
    /\ streak.col = Text("timestamp")
    /\ ~heatmap.shown

\* What C8 says the file holds after the Submits recorded in `submitted`.
LogOf(entries) == IF entries = <<>> THEN <<>> ELSE <<HeaderLine>> \o entries

\* C8: from an absent or empty store, the file is one header line followed
\* by one record line per successful Submit in submission order; each Submit
\* writes the header exactly when the store is absent or empty at that
\* moment and only appends; a Submit with an empty reason changes nothing.
C8_AppendOnlyLog ==
    /\ [](startedFresh => (file.lines = LogOf(submitted)
                              /\ (submitted # <<>> => file.exists)))
    /\ [][/\ file' # file =>
                \E entry \in {<<Stamp(t), Text(m), Text(r)>> :
                                 t \in Ticks, m \in Moods, r \in Reasons \ {""}} :
                    /\ file'.exists
                    /\ file'.lines = file.lines
                                        \o (IF ~file.exists \/ Len(file.lines) = 0
                                            THEN <<HeaderLine>> ELSE <<>>)
                                        \o <<entry>>
                    /\ submitted' = Append(submitted, entry)
          /\ "warning: select a mood and give a reason" \in notes' => file' = file
         ]_vars

\* C8 witness: two Submits on a store that started absent or empty.
C8_Witness ==
    /\ startedFresh
    /\ Len(submitted) = 2
    /\ file.lines = <<HeaderLine>> \o submitted

\* No record: the store is absent, zero-length, or holds no data row.
NoRecords == AbsentOrEmpty(file) \/ Df.rows = <<>>

\* C9: for every store that is absent, zero-length or without records the
\* streak is 0, there is no heatmap, no error message is surfaced and the
\* informational message is shown in place of the heatmap.
C9_NoDataIsNotAnError ==
    NoRecords =>
        /\ streak.value = 0
        /\ ~heatmap.shown
        /\ "error" \notin (streak.messages \cup heatmap.messages)
        /\ "info" \in notes

\* C9 holds of every store but one that holds nothing except blank lines.
C9_HoldsUnlessOnlyBlankLines ==
    (NoRecords /\ (AbsentOrEmpty(file) \/ Df.error = "")) =>
        /\ streak.value = 0
        /\ ~heatmap.shown
        /\ "error" \notin (streak.messages \cup heatmap.messages)
        /\ "info" \in notes

====
